---- MODULE Spec2Model ----
(***************************************************************************)
(* SecureResume: a resume store with plaintext fields and FHE-encrypted    *)
(* skill levels, HR authorisation and HR-side evaluation.                  *)
(*                                                                         *)
(* The contract (contracts/SecureResume.sol) is modelled transaction by    *)
(* transaction; a reverted transaction leaves the storage untouched and    *)
(* only records its revert reason.  The FHE library is modelled by what    *)
(* the contract relies on: handles that stand for ciphertexts, the         *)
(* plaintext a handle decrypts to, and the access-control list of          *)
(* (handle, account) pairs that FHE.allow / FHE.allowThis extend.          *)
(***************************************************************************)
EXTENDS Integers, Sequences, FiniteSets, TLC

VARIABLES
    resumes,        \* _resumes : address -> Resume
    hrAddresses,    \* hrAddresses : address -> bool
    totalResumes,   \* _totalResumes
    acl,            \* FHE access-control list: set of <<handle, account>>
    now,            \* block.timestamp
    authorizedBy,   \* HRAuthorized(hr, authorizedBy) events, as a set of pairs
    last,           \* outcome of the last transaction sent to the contract
    ui              \* state of the HREvaluator component in the HR's browser

contractVars == <<resumes, hrAddresses, totalResumes, acl, now, authorizedBy, last>>

vars == <<resumes, hrAddresses, totalResumes, acl, now, authorizedBy, last, ui>>

-----------------------------------------------------------------------------
(* Bounds of the model                                                     *)

MaxTime == 2
MaxTotalResumes == 2
MaxGrants == 1

-----------------------------------------------------------------------------
(* Accounts                                                                *)

Accounts == {"alice", "bob", "hr"}
ZeroAddress == "0x0"
This == "SecureResume"

(* Who sends which transaction in the model (the cast of test/SecureResume.ts) *)
Candidates == {"alice", "bob"}
Authorizers == {"alice", "hr"}
HRTargets == {"hr", ZeroAddress}
HRCallers == {"hr", "bob"}

-----------------------------------------------------------------------------
(* euint32 plaintexts: 32-bit unsigned words kept as two 16-bit halves     *)

Half == 2 ^ 16

W(n) == [hi |-> n \div Half, lo |-> n % Half]

MaxU32 == [hi |-> Half - 1, lo |-> Half - 1]

Add32(a, b) ==
    LET lo == a.lo + b.lo
        hi == a.hi + b.hi + (lo \div Half)
    IN  [hi |-> hi % Half, lo |-> lo % Half]

Geq32(a, b) == a.hi > b.hi \/ (a.hi = b.hi /\ a.lo >= b.lo)

-----------------------------------------------------------------------------
(* FHE handles                                                             *)

NilHandle == [k |-> "nil"]

TrivialEncrypt(v) == [k |-> "triv", v |-> v]

InputHandle(b, i) == [k |-> "in", b |-> b, i |-> i]

FHEadd(l, r) == [k |-> "add", l |-> l, r |-> r]

(* The encrypted inputs the users have prepared off-chain                  *)
(* (createEncryptedInput(contract, user).add32(..).encrypt()).             *)
EncryptedInputs ==
    [ a3 |-> [user |-> "alice", vals |-> <<W(8), W(7), W(6)>>],
      a5 |-> [user |-> "alice", vals |-> <<MaxU32, W(1), W(2), W(3), W(4)>>],
      a6 |-> [user |-> "alice", vals |-> <<W(1), W(2), W(3), W(4), W(5), W(6)>>],
      b2 |-> [user |-> "bob",   vals |-> <<W(9), MaxU32>>] ]

BundleHandles(b) == [i \in 1..Len(EncryptedInputs[b].vals) |-> InputHandle(b, i)]

RECURSIVE Plain(_)
Plain(h) ==
    CASE h.k = "in"   -> EncryptedInputs[h.b].vals[h.i]
      [] h.k = "triv" -> h.v
      [] h.k = "add"  -> Add32(Plain(h.l), Plain(h.r))
      [] OTHER        -> W(0)

(* FHE.fromExternal accepts a handle only with the proof of the bundle it  *)
(* belongs to, and only from the user the bundle was encrypted for.        *)
ProofValid(sender, sk) ==
    \A i \in 1..Len(sk.handles) :
        /\ sk.handles[i].b = sk.proof
        /\ EncryptedInputs[sk.proof].user = sender

isAllowed(h, a) == <<h, a>> \in acl

-----------------------------------------------------------------------------
(* Plaintext inputs                                                        *)

TextInputs ==
    { [name |-> "",     education |-> "BSc", workExperience |-> "dev"],
      [name |-> "John", education |-> "BSc", workExperience |-> "dev"],
      [name |-> "Jane", education |-> "MSc", workExperience |-> "ops"] }

AllSkills == <<"JavaScript", "React", "Solidity", "Go", "Rust", "SQL">>

(* A (skillNames, skillLevelsExt, inputProof) argument triple: the given   *)
(* names with the first n handles of bundle b and the proof of b.          *)
SkillsOf(names, b, n) ==
    [names |-> names, handles |-> SubSeq(BundleHandles(b), 1, n), proof |-> b]

SkillInputs ==
    { SkillsOf(<<>>, "a3", 0),
      SkillsOf(SubSeq(AllSkills, 1, 3), "a3", 3),
      SkillsOf(SubSeq(AllSkills, 1, 5), "a5", 5),
      SkillsOf(AllSkills, "a6", 6),
      SkillsOf(<<"SQL", "Go">>, "b2", 2),
      SkillsOf(<<"SQL", "Go">>, "a3", 3),
      SkillsOf(<<>>, "b2", 2),
      SkillsOf(AllSkills, "a5", 5) }

-----------------------------------------------------------------------------
(* Storage                                                                 *)

Slots == 1..5

EmptyResume ==
    [ name |-> "", education |-> "", workExperience |-> "",
      skillLevel |-> [s \in Slots |-> NilHandle],
      skillName  |-> [s \in Slots |-> ""],
      skillCount |-> 0, createdAt |-> 0, updatedAt |-> 0, exists |-> FALSE ]

(* HREvaluator: no candidate loaded, nothing displayed                     *)
NoCandidate == [address |-> ZeroAddress, name |-> "", skills |-> <<>>]

NoMessage == [kind |-> "none"]

DefaultRequiredLevel == 5

Uint64(t) == t   \* block timestamps of the model are far below 2^64

Outcome(op, caller, err, ret) == [op |-> op, caller |-> caller, err |-> err, ret |-> ret]

Init ==
    /\ resumes = [u \in Accounts |-> EmptyResume]
    /\ hrAddresses = [a \in Accounts \cup {ZeroAddress} |-> FALSE]
    /\ totalResumes = 0
    /\ acl = {}
    /\ now = 1
    /\ authorizedBy = {}
    /\ last = Outcome("deploy", This, "", NilHandle)
    /\ ui = [ candidate |-> NoCandidate, isHR |-> "null", pc |-> "idle",
              skillName |-> "", skillIndex |-> 0, requiredLevel |-> DefaultRequiredLevel,
              message |-> NoMessage ]

-----------------------------------------------------------------------------
(* Views                                                                   *)

hasResume(user) == resumes[user].exists

getStats == totalResumes

(* getResumeInfo building its array from all five slots, whatever skillCount *)
getResumeInfo_AllSlots(user) ==
    IF ~resumes[user].exists
    THEN [err |-> "Resume does not exist"]
    ELSE LET resume == resumes[user]
         IN  [ err |-> "",
               name |-> resume.name,
               education |-> resume.education,
               workExperience |-> resume.workExperience,
               skillNames |-> [i \in Slots |-> resume.skillName[i]],
               createdAt |-> resume.createdAt,
               updatedAt |-> resume.updatedAt ]

getResumeInfo(user) ==
    IF ~resumes[user].exists
    THEN [err |-> "Resume does not exist"]
    ELSE LET resume == resumes[user]
         IN  [ err |-> "",
               name |-> resume.name,
               education |-> resume.education,
               workExperience |-> resume.workExperience,
               skillNames |-> [i \in 1..resume.skillCount |-> resume.skillName[i]],
               createdAt |-> resume.createdAt,
               updatedAt |-> resume.updatedAt ]

getSkillLevels(user) ==
    IF ~resumes[user].exists
    THEN [err |-> "Resume does not exist"]
    ELSE LET resume == resumes[user]
         IN  [ err |-> "",
               levels |-> [i \in 1..resume.skillCount |-> resume.skillLevel[i]] ]

-----------------------------------------------------------------------------
(* Transactions                                                            *)

Revert(op, caller, err) ==
    /\ last' = Outcome(op, caller, err, NilHandle)
    /\ UNCHANGED <<resumes, hrAddresses, totalResumes, acl, now, authorizedBy>>

(* The loop that stores skills in the fixed slots: slot i+1 takes the i-th *)
(* level and name, the other slots keep what `base` holds.                 *)
(* the storing loop starting at the second skill                           *)
StoreSkills_FromSecond(base, skillNames, handles) ==
    [ base EXCEPT
        !.skillLevel = [s \in Slots |->
                          IF s > 1 /\ s <= Len(skillNames) THEN handles[s] ELSE @[s]],
        !.skillName  = [s \in Slots |->
                          IF s > 1 /\ s <= Len(skillNames) THEN skillNames[s] ELSE @[s]] ]

StoreSkills(base, skillNames, handles) ==
    [ base EXCEPT
        !.skillLevel = [s \in Slots |-> IF s <= Len(skillNames) THEN handles[s] ELSE @[s]],
        !.skillName  = [s \in Slots |-> IF s <= Len(skillNames) THEN skillNames[s] ELSE @[s]] ]

(* the storing loop without FHE.allowThis                                  *)
StoredGrants_SenderOnly(sender, handles) ==
    { <<handles[i], sender>> : i \in 1..Len(handles) }

StoredGrants(sender, handles) ==
    UNION { {<<handles[i], This>>, <<handles[i], sender>>} : i \in 1..Len(handles) }

(* the validation without the name check                                   *)
SubmitError_NoNameCheck(sender, text, sk) ==
    IF Len(sk.names) # Len(sk.handles) THEN "Skill arrays length mismatch"
    ELSE IF ~(Len(sk.names) > 0 /\ Len(sk.names) <= 5) THEN "Must have 1-5 skills"
    ELSE IF ~ProofValid(sender, sk) THEN "InvalidInputProof"
    ELSE ""

(* the validation with the skill-count check before the length check       *)
SubmitError_CountFirst(sender, text, sk) ==
    IF ~(Len(sk.names) > 0 /\ Len(sk.names) <= 5) THEN "Must have 1-5 skills"
    ELSE IF Len(sk.names) # Len(sk.handles) THEN "Skill arrays length mismatch"
    ELSE IF text.name = "" THEN "Name cannot be empty"
    ELSE IF ~ProofValid(sender, sk) THEN "InvalidInputProof"
    ELSE ""

(* the validation accepting up to six skills                               *)
SubmitError_UpToSix(sender, text, sk) ==
    IF Len(sk.names) # Len(sk.handles) THEN "Skill arrays length mismatch"
    ELSE IF ~(Len(sk.names) > 0 /\ Len(sk.names) <= 6) THEN "Must have 1-5 skills"
    ELSE IF text.name = "" THEN "Name cannot be empty"
    ELSE IF ~ProofValid(sender, sk) THEN "InvalidInputProof"
    ELSE ""

SubmitError(sender, text, sk) ==
    IF Len(sk.names) # Len(sk.handles) THEN "Skill arrays length mismatch"
    ELSE IF ~(Len(sk.names) > 0 /\ Len(sk.names) <= 5) THEN "Must have 1-5 skills"
    ELSE IF text.name = "" THEN "Name cannot be empty"
    ELSE IF ~ProofValid(sender, sk) THEN "InvalidInputProof"
    ELSE ""

submitResume(sender, text, sk) ==
    LET err == SubmitError(sender, text, sk) IN
       IF err # ""
       THEN Revert("submitResume", sender, err)
       ELSE /\ resumes' = [resumes EXCEPT ![sender] =
                 StoreSkills(
                   [ @ EXCEPT !.name = text.name,
                              !.education = text.education,
                              !.workExperience = text.workExperience,
                              !.skillCount = Len(sk.names),
                              !.createdAt = Uint64(now),
                              !.updatedAt = Uint64(now),
                              !.exists = TRUE ],
                   sk.names, sk.handles)]
            /\ totalResumes' = totalResumes + 1
            /\ acl' = acl \cup StoredGrants(sender, sk.handles)
            /\ last' = Outcome("submitResume", sender, "", NilHandle)
            /\ UNCHANGED <<hrAddresses, now, authorizedBy>>

(* the validation of updateResume without the existence check             *)
UpdateError_NoExistsCheck(sender, text, sk) ==
    SubmitError(sender, text, sk)

UpdateError(sender, text, sk) ==
    IF ~resumes[sender].exists THEN "Resume does not exist"
    ELSE SubmitError(sender, text, sk)

(* updateResume writing createdAt as submitResume does                     *)
updateResume_ResetsCreatedAt(sender, text, sk) ==
    LET err == UpdateError(sender, text, sk) IN
    IF err # ""
    THEN Revert("updateResume", sender, err)
    ELSE /\ resumes' = [resumes EXCEPT ![sender] =
              StoreSkills(
                [ @ EXCEPT !.name = text.name,
                           !.education = text.education,
                           !.workExperience = text.workExperience,
                           !.skillCount = Len(sk.names),
                           !.createdAt = Uint64(now),
                           !.updatedAt = Uint64(now),
                           !.skillName = [s \in Slots |-> ""],
                           !.skillLevel = [s \in Slots |-> TrivialEncrypt(W(0))] ],
                sk.names, sk.handles)]
         /\ acl' = acl \cup StoredGrants(sender, sk.handles)
         /\ last' = Outcome("updateResume", sender, "", NilHandle)
         /\ UNCHANGED <<hrAddresses, totalResumes, now, authorizedBy>>

updateResume(sender, text, sk) ==
    LET err == UpdateError(sender, text, sk) IN
    IF err # ""
    THEN Revert("updateResume", sender, err)
    ELSE /\ resumes' = [resumes EXCEPT ![sender] =
              StoreSkills(
                [ @ EXCEPT !.name = text.name,
                           !.education = text.education,
                           !.workExperience = text.workExperience,
                           !.skillCount = Len(sk.names),
                           !.updatedAt = Uint64(now),
                           !.skillName = [s \in Slots |-> ""],
                           !.skillLevel = [s \in Slots |-> TrivialEncrypt(W(0))] ],
                sk.names, sk.handles)]
         /\ acl' = acl \cup StoredGrants(sender, sk.handles)
         /\ last' = Outcome("updateResume", sender, "", NilHandle)
         /\ UNCHANGED <<hrAddresses, totalResumes, now, authorizedBy>>

(* FHE.allow / FHE.allowThis revert unless the calling contract is itself  *)
(* allowed on the handle; within one transaction the contract is allowed   *)
(* on every handle it has just produced (FHE.asEuint32, FHE.add).          *)
ExtraGrants ==
    {p \in acl : p[2] # This /\ ~(p[1].k = "in" /\ EncryptedInputs[p[1].b].user = p[2])}

(* the slot selection always taking the first slot                         *)
SlotLevel_FirstSlot(resume, skillIndex) ==
    IF skillIndex <= 4 THEN resume.skillLevel[1] ELSE NilHandle

SlotLevel(resume, skillIndex) ==
    IF skillIndex = 0 THEN resume.skillLevel[1]
    ELSE IF skillIndex = 1 THEN resume.skillLevel[2]
    ELSE IF skillIndex = 2 THEN resume.skillLevel[3]
    ELSE IF skillIndex = 3 THEN resume.skillLevel[4]
    ELSE IF skillIndex = 4 THEN resume.skillLevel[5]
    ELSE NilHandle

(* evaluateSkillMatch without the onlyHR modifier                          *)
EvaluateError_NoOnlyHR(sender, candidate, skillIndex) ==
    IF ~resumes[candidate].exists THEN "Resume does not exist"
    ELSE IF ~(skillIndex < resumes[candidate].skillCount) THEN "Invalid skill index"
    ELSE IF skillIndex > 4 THEN "Invalid skill index"
    ELSE IF ~isAllowed(SlotLevel(resumes[candidate], skillIndex), This) THEN "SenderNotAllowed"
    ELSE ""

EvaluateError(sender, candidate, skillIndex) ==
    IF ~hrAddresses[sender] THEN "Not authorized HR"
    ELSE IF ~resumes[candidate].exists THEN "Resume does not exist"
    ELSE IF ~(skillIndex < resumes[candidate].skillCount) THEN "Invalid skill index"
    ELSE IF skillIndex > 4 THEN "Invalid skill index"
    ELSE IF ~isAllowed(SlotLevel(resumes[candidate], skillIndex), This) THEN "SenderNotAllowed"
    ELSE ""

evaluateSkillMatch(sender, candidate, skillIndex) ==
    LET err == EvaluateError(sender, candidate, skillIndex) IN
    IF err # ""
    THEN Revert("evaluateSkillMatch", sender, err)
    ELSE LET skillLevel == SlotLevel(resumes[candidate], skillIndex) IN
         /\ acl' = acl \cup {<<skillLevel, This>>, <<skillLevel, sender>>}
         /\ last' = Outcome("evaluateSkillMatch", sender, "", skillLevel)
         /\ UNCHANGED <<resumes, hrAddresses, totalResumes, now, authorizedBy>>

(* the loop adding the slot of the loop counter instead of the listed index *)
RECURSIVE ScoreHandle_ByPosition(_, _, _)
ScoreHandle_ByPosition(resume, skillIndices, n) ==
    IF n = 0 THEN TrivialEncrypt(W(0))
    ELSE FHEadd(ScoreHandle_ByPosition(resume, skillIndices, n - 1), SlotLevel(resume, n - 1))

(* totalScore after the first n iterations of the loop.                    *)
RECURSIVE ScoreHandle(_, _, _)
ScoreHandle(resume, skillIndices, n) ==
    IF n = 0 THEN TrivialEncrypt(W(0))
    ELSE LET prev == ScoreHandle(resume, skillIndices, n - 1) IN
         IF skillIndices[n] > 4 THEN prev
         ELSE FHEadd(prev, SlotLevel(resume, skillIndices[n]))

ScoreError(sender, candidate, skillIndices) ==
    IF ~hrAddresses[sender] THEN "Not authorized HR"
    ELSE IF ~resumes[candidate].exists THEN "Resume does not exist"
    ELSE IF \E i \in 1..Len(skillIndices) :
                ~(skillIndices[i] < resumes[candidate].skillCount)
         THEN "Invalid skill index"
    ELSE IF \E i \in 1..Len(skillIndices) :
                /\ skillIndices[i] <= 4
                /\ ~isAllowed(SlotLevel(resumes[candidate], skillIndices[i]), This)
         THEN "SenderNotAllowed"
    ELSE ""

calculateSkillScore(sender, candidate, skillIndices) ==
    LET err == ScoreError(sender, candidate, skillIndices) IN
    IF err # ""
    THEN Revert("calculateSkillScore", sender, err)
    ELSE LET totalScore == ScoreHandle(resumes[candidate], skillIndices, Len(skillIndices)) IN
         /\ acl' = acl \cup {<<totalScore, This>>, <<totalScore, sender>>}
         /\ last' = Outcome("calculateSkillScore", sender, "", totalScore)
         /\ UNCHANGED <<resumes, hrAddresses, totalResumes, now, authorizedBy>>

(* the validation of authorizeHR without the zero-address check           *)
AuthorizeError_NoZeroCheck(hr) ==
    IF hrAddresses[hr] THEN "HR already authorized" ELSE ""

AuthorizeError(hr) ==
    IF hr = ZeroAddress THEN "Invalid HR address"
    ELSE IF hrAddresses[hr] THEN "HR already authorized"
    ELSE ""

authorizeHR(sender, hr) ==
    LET err == AuthorizeError(hr) IN
    IF err # ""
    THEN Revert("authorizeHR", sender, err)
    ELSE /\ hrAddresses' = [hrAddresses EXCEPT ![hr] = TRUE]
         /\ authorizedBy' = authorizedBy \cup {<<hr, sender>>}
         /\ last' = Outcome("authorizeHR", sender, "", NilHandle)
         /\ UNCHANGED <<resumes, totalResumes, acl, now>>

(* revokeHR leaving the mapping as it is                                   *)
revokeHR_KeepsFlag(sender, hr) ==
    IF ~hrAddresses[hr]
    THEN Revert("revokeHR", sender, "HR not authorized")
    ELSE /\ last' = Outcome("revokeHR", sender, "", NilHandle)
         /\ UNCHANGED <<resumes, hrAddresses, totalResumes, acl, now, authorizedBy>>

revokeHR(sender, hr) ==
    IF ~hrAddresses[hr]
    THEN Revert("revokeHR", sender, "HR not authorized")
    ELSE /\ hrAddresses' = [hrAddresses EXCEPT ![hr] = FALSE]
         /\ last' = Outcome("revokeHR", sender, "", NilHandle)
         /\ UNCHANGED <<resumes, totalResumes, acl, now, authorizedBy>>

Tick ==
    /\ now < MaxTime
    /\ now' = now + 1
    /\ UNCHANGED <<resumes, hrAddresses, totalResumes, acl, authorizedBy, last>>

-----------------------------------------------------------------------------
(* The HREvaluator component (frontend/components/ResumeViewer.tsx), run   *)
(* by the account UIAddress.  An async handler is split where it awaits a  *)
(* mined transaction; the reads that follow see the chain as it is then.   *)

UIAddress == "hr"

(* fhevmInstance.userDecrypt: the relayer decrypts a handle for a user     *)
(* only if both the user and the contract are allowed on it.               *)
CanDecrypt(list, handle, user) == <<handle, user>> \in list /\ <<handle, This>> \in list

userDecrypt(handle, user) ==
    IF CanDecrypt(acl, handle, user)
    THEN [ok |-> TRUE, value |-> Plain(handle)]
    ELSE [ok |-> FALSE, value |-> W(0)]

ErrorMessage(text) == [kind |-> "error", text |-> text]

(* The message evaluateSkill displays once the level is decrypted          *)
EvaluationMessage(skillName, decryptedLevel, requiredLevel) ==
    [ kind |-> "complete", skill |-> skillName, decryptedLevel |-> decryptedLevel,
      required |-> requiredLevel, meetsRequirement |-> Geq32(decryptedLevel, W(requiredLevel)) ]

(* Array.findIndex: 0-based index of the first skill with that name, -1 if none *)
findIndex(skills, skillName) ==
    IF \E i \in 1..Len(skills) : skills[i].name = skillName
    THEN (CHOOSE i \in 1..Len(skills) :
             /\ skills[i].name = skillName
             /\ \A j \in 1..(i - 1) : skills[j].name # skillName) - 1
    ELSE -1

checkHRStatus ==
    /\ ui' = [ui EXCEPT !.isHR = IF hrAddresses[UIAddress] THEN "true" ELSE "false"]
    /\ UNCHANGED contractVars

authorizeAsHR ==
    /\ ui.isHR = "false"
    /\ authorizeHR(UIAddress, UIAddress)
    /\ ui' = IF last'.err = ""
             THEN [ui EXCEPT !.isHR = "true", !.message = [kind |-> "authorized"]]
             ELSE [ui EXCEPT !.message = ErrorMessage(last'.err)]

loadCandidate(candidateAddress) ==
    /\ ui.pc = "idle"
    /\ ui' = IF ~hasResume(candidateAddress)
             THEN [ui EXCEPT !.candidate = NoCandidate,
                             !.message = ErrorMessage("Candidate has not submitted a resume")]
             ELSE LET resumeInfo == getResumeInfo(candidateAddress) IN
                  [ui EXCEPT
                     !.candidate =
                        [ address |-> candidateAddress,
                          name |-> resumeInfo.name,
                          skills |-> [i \in 1..Len(resumeInfo.skillNames) |->
                                        [name |-> resumeInfo.skillNames[i],
                                         meetsRequirement |-> "null"]] ],
                     !.message = [kind |-> "loaded"]]
    /\ UNCHANGED contractVars

(* evaluateSkill up to the mined evaluateSkillMatch transaction            *)
evaluateSkillSend(skillName, requiredLevel) ==
    /\ ui.pc = "idle"
    /\ ui.isHR # "false"
    /\ ui.candidate # NoCandidate
    /\ LET skillIndex == findIndex(ui.candidate.skills, skillName) IN
       /\ skillIndex # -1
       /\ evaluateSkillMatch(UIAddress, ui.candidate.address, skillIndex)
       /\ ui' = IF last'.err = ""
                THEN [ui EXCEPT !.pc = "sent", !.skillName = skillName,
                                !.skillIndex = skillIndex,
                                !.requiredLevel = requiredLevel,
                                !.message = [kind |-> "waiting"]]
                ELSE [ui EXCEPT !.message = ErrorMessage(last'.err)]

(* evaluateSkill after the transaction: staticCall for the handle,         *)
(* userDecrypt, comparison with the required level, display.               *)
evaluateSkillDecrypt ==
    /\ ui.pc = "sent"
    /\ LET candidate == ui.candidate.address
           err == EvaluateError(UIAddress, candidate, ui.skillIndex)
           skillHandle == SlotLevel(resumes[candidate], ui.skillIndex)
           decrypted == userDecrypt(skillHandle, UIAddress)
       IN  ui' =
             IF err # "" THEN [ui EXCEPT !.pc = "idle", !.message = ErrorMessage(err)]
             ELSE IF skillHandle = NilHandle
             THEN [ui EXCEPT !.pc = "idle",
                             !.message = ErrorMessage("No encrypted skill level found or handle is zero")]
             ELSE IF ~decrypted.ok
             THEN [ui EXCEPT !.pc = "idle", !.message = ErrorMessage("User is not authorized to decrypt")]
             ELSE LET message == EvaluationMessage(ui.skillName, decrypted.value, ui.requiredLevel) IN
                  [ui EXCEPT
                     !.pc = "idle",
                     !.candidate.skills =
                        [i \in 1..Len(@) |->
                            IF @[i].name = ui.skillName
                            THEN [@[i] EXCEPT !.meetsRequirement =
                                      IF message.meetsRequirement THEN "true" ELSE "false"]
                            ELSE @[i]],
                     !.message = message]
    /\ UNCHANGED contractVars

-----------------------------------------------------------------------------
(* Inputs of the HR transactions                                           *)

SkillIndexInputs == {0, 4, 5}

SkillIndicesInputs == { <<>>, <<0, 0>>, <<0, 1, 2>>, <<5>> }

(* The skill arguments a candidate can submit successfully                 *)
OwnSkillInputs(u) ==
    {sk \in SkillInputs : Len(sk.names) = Len(sk.handles) /\ Len(sk.names) \in 1..5
                          /\ ProofValid(u, sk)}

JohnText == [name |-> "John", education |-> "BSc", workExperience |-> "dev"]

-----------------------------------------------------------------------------
(* The resume store on its own: every input, block time advancing          *)

NextResume ==
    \/ \E u \in Candidates, t \in TextInputs, sk \in SkillInputs :
          totalResumes < MaxTotalResumes /\ submitResume(u, t, sk) /\ UNCHANGED ui
    \/ \E u \in Candidates, t \in TextInputs, sk \in SkillInputs :
          updateResume(u, t, sk) /\ UNCHANGED ui
    \/ Tick /\ UNCHANGED ui

SpecResume == Init /\ [][NextResume]_vars

(* The whole contract.  Block time stands still here: no transaction but  *)
(* submitResume and updateResume reads it.                                 *)

Next ==
    \/ \E u \in Candidates : \E sk \in OwnSkillInputs(u) :
          totalResumes < MaxTotalResumes /\ submitResume(u, JohnText, sk) /\ UNCHANGED ui
    \/ \E u \in Candidates : \E sk \in OwnSkillInputs(u) :
          updateResume(u, JohnText, sk) /\ UNCHANGED ui
    \/ \E u \in HRCallers, c \in Candidates, i \in SkillIndexInputs :
          /\ evaluateSkillMatch(u, c, i)
          /\ Cardinality(ExtraGrants') <= MaxGrants
          /\ UNCHANGED ui
    \/ \E u \in HRCallers, c \in Candidates, is \in SkillIndicesInputs :
          /\ calculateSkillScore(u, c, is)
          /\ Cardinality(ExtraGrants') <= MaxGrants
          /\ UNCHANGED ui
    \/ \E u \in Authorizers, hr \in HRTargets : authorizeHR(u, hr) /\ UNCHANGED ui
    \/ \E u \in Authorizers, hr \in HRTargets : revokeHR(u, hr) /\ UNCHANGED ui

Spec == Init /\ [][Next]_vars

(* The contract driven by candidates and by the HR's browser               *)

RequiredLevelInputs == {DefaultRequiredLevel, 7}

NextUI ==
    \/ \E u \in Candidates : \E sk \in OwnSkillInputs(u) :
          totalResumes < MaxTotalResumes /\ submitResume(u, JohnText, sk) /\ UNCHANGED ui
    \/ \E u \in Candidates : \E sk \in OwnSkillInputs(u) :
          updateResume(u, JohnText, sk) /\ UNCHANGED ui
    \/ \E hr \in HRTargets : authorizeHR("alice", hr) /\ UNCHANGED ui
    \/ \E hr \in HRTargets : revokeHR("alice", hr) /\ UNCHANGED ui
    \/ checkHRStatus
    \/ authorizeAsHR
    \/ \E c \in Candidates : loadCandidate(c)
    \/ \E n \in {AllSkills[i] : i \in 1..Len(AllSkills)}, r \in RequiredLevelInputs :
          evaluateSkillSend(n, r) /\ Cardinality(ExtraGrants') <= MaxGrants
    \/ evaluateSkillDecrypt

SpecUI == Init /\ [][NextUI]_vars

(* Resumes and HR authorizations together, block time advancing           *)

NextFrame ==
    \/ \E u \in Candidates : \E sk \in OwnSkillInputs(u) :
          totalResumes < MaxTotalResumes /\ submitResume(u, JohnText, sk) /\ UNCHANGED ui
    \/ \E u \in Candidates : \E sk \in OwnSkillInputs(u) :
          updateResume(u, JohnText, sk) /\ UNCHANGED ui
    \/ \E hr \in HRTargets : authorizeHR("alice", hr) /\ UNCHANGED ui
    \/ \E hr \in HRTargets : revokeHR("alice", hr) /\ UNCHANGED ui
    \/ Tick /\ UNCHANGED ui

SpecFrame == Init /\ [][NextFrame]_vars

-----------------------------------------------------------------------------
(* Properties                                                              *)

Unchanged == UNCHANGED <<resumes, hrAddresses, totalResumes, acl>>

EmptyNameTexts == {t \in TextInputs : t.name = ""}

WellFormedSkillInputs ==
    {sk \in SkillInputs : Len(sk.names) = Len(sk.handles) /\ Len(sk.names) \in 1..5}

MismatchedSkillInputs == {sk \in SkillInputs : Len(sk.names) # Len(sk.handles)}

MiscountedSkillInputs ==
    {sk \in SkillInputs : Len(sk.names) = Len(sk.handles) /\ Len(sk.names) \notin 1..5}

(* Every transaction records its name and its sender in `last`, so a step  *)
(* is a step of op(u, ..) only if last'.op = op and last'.caller = u: the  *)
(* formulas below test these two fields before they test the action.       *)
(* Where the required outcome P of a call does not depend on its other     *)
(* arguments, "\A args : op(u, args) => P" is written in the equivalent    *)
(* form "P \/ \A args : ~op(u, args)".                                     *)
ResumeStep == last'.op \in {"submitResume", "updateResume"}

HRStep == last'.op \in {"evaluateSkillMatch", "calculateSkillScore"}

(* C1: after a successful submitResume by u, hasResume(u) is true and      *)
(* getResumeInfo(u) returns exactly the submitted name, education, work    *)
(* experience and skill names (same order, same length).                   *)
C1_SubmitThenRead ==
    [][(last'.op = "submitResume" /\ last'.err = "") =>
          \A u \in Candidates, t \in TextInputs, sk \in SkillInputs :
              (last'.caller = u /\ submitResume(u, t, sk)) =>
                  /\ hasResume(u)'
                  /\ getResumeInfo(u)'.err = ""
                  /\ getResumeInfo(u)'.name = t.name
                  /\ getResumeInfo(u)'.education = t.education
                  /\ getResumeInfo(u)'.workExperience = t.workExperience
                  /\ getResumeInfo(u)'.skillNames = sk.names]_vars

C1_Witness ==
    /\ last.op = "submitResume" /\ last.err = ""
    /\ hasResume(last.caller)
    /\ getResumeInfo(last.caller).skillNames = <<"JavaScript", "React", "Solidity">>

(* C2: after a successful updateResume by u, getResumeInfo(u) returns      *)
(* exactly the updated fields and skill names, and no slot keeps a skill   *)
(* name of the previous version, also when the new list is shorter.        *)
C2_UpdateThenRead ==
    [][(last'.op = "updateResume" /\ last'.err = "") =>
          \A u \in Candidates, t \in TextInputs, sk \in SkillInputs :
              (last'.caller = u /\ updateResume(u, t, sk)) =>
                  /\ hasResume(u)
                  /\ getResumeInfo(u)'.err = ""
                  /\ getResumeInfo(u)'.name = t.name
                  /\ getResumeInfo(u)'.education = t.education
                  /\ getResumeInfo(u)'.workExperience = t.workExperience
                  /\ getResumeInfo(u)'.skillNames = sk.names
                  /\ \A s \in Slots :
                        s > Len(sk.names) => resumes'[u].skillName[s] = ""]_vars

C2_Witness ==
    /\ last.op = "updateResume" /\ last.err = ""
    /\ getResumeInfo(last.caller).skillNames = <<"JavaScript", "React", "Solidity">>
    /\ isAllowed(InputHandle("a5", 5), last.caller)

(* C3: a caller that is not an authorized HR gets "Not authorized HR" from *)
(* evaluateSkillMatch and calculateSkillScore whatever the candidate and   *)
(* the indices are; the call grants nothing and changes no contract state. *)
C3_NotAuthorizedHR ==
    [][\A u \in HRCallers :
          (HRStep /\ last'.caller = u /\ ~hrAddresses[u]) =>
              \/ last'.err = "Not authorized HR" /\ Unchanged
              \/ \A c \in Candidates :
                    /\ \A i \in SkillIndexInputs : ~evaluateSkillMatch(u, c, i)
                    /\ \A is \in SkillIndicesInputs : ~calculateSkillScore(u, c, is)]_vars

C3_Witness ==
    /\ last.op = "calculateSkillScore" /\ last.err = "Not authorized HR"
    /\ ~hrAddresses[last.caller]
    /\ hasResume("alice") /\ ~hasResume("bob")

(* C4 as stated: submitResume and updateResume with an empty name and      *)
(* otherwise valid skill arrays revert with "Name cannot be empty" and     *)
(* change nothing.                                                         *)
C4_Original ==
    [][\A u \in Candidates :
          (ResumeStep /\ last'.caller = u) =>
              \/ last'.err = "Name cannot be empty" /\ Unchanged
              \/ \A t \in EmptyNameTexts, sk \in WellFormedSkillInputs :
                    /\ ~submitResume(u, t, sk)
                    /\ ~updateResume(u, t, sk)]_vars

(* C4 amended: the same, for updateResume only when the caller has a resume *)
C4_EmptyName ==
    [][\A u \in Candidates :
          (ResumeStep /\ last'.caller = u) =>
              \/ last'.err = "Name cannot be empty" /\ Unchanged
              \/ \A t \in EmptyNameTexts, sk \in WellFormedSkillInputs :
                    /\ ~submitResume(u, t, sk)
                    /\ ~(hasResume(u) /\ updateResume(u, t, sk))]_vars

C4_Witness ==
    /\ last.op = "updateResume" /\ last.err = "Name cannot be empty"
    /\ hasResume(last.caller)

(* C5 as stated: submitResume and updateResume revert with "Skill arrays   *)
(* length mismatch" whenever the numbers of names and of levels differ,    *)
(* before the skill-count and the name checks; nothing changes.            *)
C5_Original ==
    [][\A u \in Candidates :
          (ResumeStep /\ last'.caller = u) =>
              \/ last'.err = "Skill arrays length mismatch" /\ Unchanged
              \/ \A t \in TextInputs, sk \in MismatchedSkillInputs :
                    /\ ~submitResume(u, t, sk)
                    /\ ~updateResume(u, t, sk)]_vars

(* C5 amended: the same, for updateResume only when the caller has a resume *)
C5_LengthMismatch ==
    [][\A u \in Candidates :
          (ResumeStep /\ last'.caller = u) =>
              \/ last'.err = "Skill arrays length mismatch" /\ Unchanged
              \/ \A t \in TextInputs, sk \in MismatchedSkillInputs :
                    /\ ~submitResume(u, t, sk)
                    /\ ~(hasResume(u) /\ updateResume(u, t, sk))]_vars

C5_Witness ==
    /\ last.op = "updateResume" /\ last.err = "Skill arrays length mismatch"
    /\ hasResume(last.caller)

SkillCountInRange ==
    \A u \in Accounts : resumes[u].exists => resumes[u].skillCount \in 1..5

(* C6 as stated: submitResume and updateResume given 0 or more than 5      *)
(* skills revert with "Must have 1-5 skills", and every existing resume    *)
(* has skillCount in 1..5.                                                 *)
C6_Original ==
    [][/\ SkillCountInRange'
       /\ \A u \in Candidates :
            (ResumeStep /\ last'.caller = u) =>
                \/ last'.err = "Must have 1-5 skills"
                \/ \A t \in TextInputs, sk \in MiscountedSkillInputs :
                      /\ ~submitResume(u, t, sk)
                      /\ ~updateResume(u, t, sk)]_vars

(* C6 amended: the same, for updateResume only when the caller has a resume *)
C6_SkillCount ==
    [][/\ SkillCountInRange'
       /\ \A u \in Candidates :
            (ResumeStep /\ last'.caller = u) =>
                \/ last'.err = "Must have 1-5 skills"
                \/ \A t \in TextInputs, sk \in MiscountedSkillInputs :
                      /\ ~submitResume(u, t, sk)
                      /\ ~(hasResume(u) /\ updateResume(u, t, sk))]_vars

C6_Witness ==
    /\ last.op = "updateResume" /\ last.err = "Must have 1-5 skills"
    /\ hasResume(last.caller) /\ resumes[last.caller].skillCount = 5

(* C7 as stated: the result of an HR's evaluateSkillMatch decrypts, for    *)
(* that HR, to 1 when the stored level is at least the required level.     *)
C7_Original ==
    [][(last'.op = "evaluateSkillMatch" /\ last'.err = "") =>
          \A u \in HRCallers, c \in Candidates, i \in SkillIndexInputs,
             requiredLevel \in RequiredLevelInputs :
              ( /\ last'.caller = u /\ evaluateSkillMatch(u, c, i)
                /\ Geq32(Plain(SlotLevel(resumes[c], i)), W(requiredLevel)) ) =>
                  /\ CanDecrypt(acl', last'.ret, u)
                  /\ Plain(last'.ret) = W(1)]_vars

(* the plaintext sum of the stored levels at the first n listed indices    *)
RECURSIVE SumLevels(_, _, _)
SumLevels(levels, skillIndices, n) ==
    IF n = 0 THEN W(0)
    ELSE Add32(SumLevels(levels, skillIndices, n - 1), Plain(levels[skillIndices[n] + 1]))

C9_Original ==
    \A owner \in Accounts : \A a \in Accounts \ {owner} :
        \A s \in 1..resumes[owner].skillCount :
            (resumes[owner].exists /\ isAllowed(resumes[owner].skillLevel[s], a))
                => <<a, owner>> \in authorizedBy

AltLevels == {W(n) : n \in 1..10}

(* C10 as stated: what an evaluation shows the HR depends only on whether  *)
(* the requirement is met: a candidate with any other level on the same    *)
(* side of the required level would have produced the same display.        *)
C10_Original ==
    ui.message.kind = "complete" =>
        \A level \in AltLevels :
            (Geq32(level, W(ui.message.required)) <=> ui.message.meetsRequirement)
                => EvaluationMessage(ui.message.skill, level, ui.message.required) = ui.message

(* C11 as stated: getStats equals the number of addresses for which        *)
(* hasResume is true, also after repeated submitResume calls by one        *)
(* address.                                                                *)
C11_Original ==
    getStats = Cardinality({u \in Accounts : hasResume(u)})

(* C12: a successful authorizeHR(h), whoever sends it, makes hrAddresses(h) *)
(* true, and from then on evaluateSkillMatch(c, i) by h does not revert    *)
(* for any candidate c with a resume and any i below c's skill count.      *)
C12_AuthorizedCanEvaluate ==
    [][/\ (last'.op = "authorizeHR" /\ last'.err = "") =>
            \A u \in Authorizers, h \in HRTargets :
                (last'.caller = u /\ authorizeHR(u, h)) =>
                    /\ hrAddresses'[h]
                    /\ \A c \in Candidates, i \in 0..4 :
                          (hasResume(c)' /\ i < resumes'[c].skillCount) =>
                              EvaluateError(h, c, i)' = ""
       /\ last'.op = "evaluateSkillMatch" =>
            \A h \in HRCallers, c \in Candidates, i \in SkillIndexInputs :
                ( /\ last'.caller = h /\ hrAddresses[h]
                  /\ hasResume(c) /\ i < resumes[c].skillCount
                  /\ evaluateSkillMatch(h, c, i) ) =>
                    last'.err = ""]_vars

C12_Witness ==
    /\ last.op = "evaluateSkillMatch" /\ last.err = "" /\ last.caller = "hr"
    /\ last.ret = InputHandle("a5", 5)
    /\ authorizedBy = {<<"hr", "hr">>}

(* C13: for an address that has never successfully submitted a resume,     *)
(* updateResume, getResumeInfo and getSkillLevels revert with "Resume does *)
(* not exist", and the failed updateResume creates no resume.  Only a      *)
(* successful submitResume by u makes hasResume(u) true, so "never         *)
(* submitted" is ~hasResume(u).                                            *)
C13_ResumeDoesNotExist ==
    [][/\ \A u \in Accounts :
            (~hasResume(u) /\ hasResume(u)') =>
                last'.op = "submitResume" /\ last'.caller = u /\ last'.err = ""
       /\ \A u \in Accounts :
            ~hasResume(u) =>
                /\ getResumeInfo(u).err = "Resume does not exist"
                /\ getSkillLevels(u).err = "Resume does not exist"
       /\ \A u \in Candidates :
            (last'.op = "updateResume" /\ last'.caller = u /\ ~hasResume(u)) =>
                \/ /\ last'.err = "Resume does not exist"
                   /\ ~hasResume(u)'
                   /\ Unchanged
                \/ \A t \in TextInputs, sk \in SkillInputs : ~updateResume(u, t, sk)]_vars

C13_Witness ==
    /\ last.op = "updateResume" /\ last.err = "Resume does not exist"
    /\ ~hasResume(last.caller)
    /\ getSkillLevels(last.caller).err = "Resume does not exist"
    /\ \E u \in Candidates : hasResume(u)

C15_RevokeHR ==
    [][/\ (last'.op = "revokeHR" /\ last'.err = "") =>
            \A u \in Authorizers, h \in HRTargets :
                (last'.caller = u /\ revokeHR(u, h)) =>
                    /\ ~hrAddresses'[h]
                    /\ hrAddresses' = [hrAddresses EXCEPT ![h] = FALSE]
       /\ (last'.op = "authorizeHR" /\ last'.err = "") =>
            \A u \in Authorizers, h \in HRTargets :
                (last'.caller = u /\ authorizeHR(u, h)) =>
                    [hrAddresses' EXCEPT ![h] = FALSE] = hrAddresses
       /\ \A h \in HRCallers :
            (~hrAddresses[h] /\ hrAddresses'[h]) =>
                /\ last'.err = ""
                /\ \E u \in Authorizers : authorizeHR(u, h)
       /\ \A h \in HRCallers :
            (HRStep /\ last'.caller = h /\ ~hrAddresses[h]) =>
                \/ last'.err = "Not authorized HR"
                \/ \A c \in Candidates :
                      /\ \A i \in SkillIndexInputs : ~evaluateSkillMatch(h, c, i)
                      /\ \A is \in SkillIndicesInputs : ~calculateSkillScore(h, c, is)]_vars

C15_Witness ==
    /\ last.op = "evaluateSkillMatch" /\ last.err = "Not authorized HR"
    /\ last.caller = "hr"
    /\ ExtraGrants # {}

(* C16: authorizeHR(h) reverts with "Invalid HR address" for the zero      *)
(* address and with "HR already authorized" when hrAddresses[h] is true;   *)
(* revokeHR(h) reverts with "HR not authorized" when hrAddresses[h] is     *)
(* false; a failed call leaves hrAddresses unchanged, and the zero address *)
(* is never an authorized HR.                                              *)
C16_AuthorizeErrors ==
    [][/\ ~hrAddresses[ZeroAddress] /\ ~hrAddresses'[ZeroAddress]
       /\ last'.op = "authorizeHR" =>
            \A u \in Authorizers :
                last'.caller = u =>
                    /\ \/ last'.err = "Invalid HR address" /\ UNCHANGED hrAddresses
                       \/ ~authorizeHR(u, ZeroAddress)
                    /\ \A h \in HRTargets :
                          hrAddresses[h] =>
                              \/ last'.err = "HR already authorized" /\ UNCHANGED hrAddresses
                              \/ ~authorizeHR(u, h)
       /\ last'.op = "revokeHR" =>
            \A u \in Authorizers :
                last'.caller = u =>
                    \A h \in HRTargets :
                        ~hrAddresses[h] =>
                            \/ last'.err = "HR not authorized" /\ UNCHANGED hrAddresses
                            \/ ~revokeHR(u, h)
       /\ (last'.op \in {"authorizeHR", "revokeHR"} /\ last'.err # "") =>
            UNCHANGED hrAddresses]_vars

C16_Witness ==
    /\ last.op = "authorizeHR" /\ last.err = "Invalid HR address"
    /\ hrAddresses["hr"] /\ ~hrAddresses[ZeroAddress]

(* C17: a successful updateResume by u leaves u's createdAt, u's exists    *)
(* flag and the total-resumes counter unchanged, sets u's updatedAt to the *)
(* current block timestamp, and changes no other address's resume and no   *)
(* HR authorization.                                                       *)
C17_UpdateFrame ==
    [][(last'.op = "updateResume" /\ last'.err = "") =>
          \A u \in Candidates, t \in TextInputs, sk \in SkillInputs :
              (last'.caller = u /\ updateResume(u, t, sk)) =>
                  /\ hasResume(u)
                  /\ resumes'[u].createdAt = resumes[u].createdAt
                  /\ getResumeInfo(u)'.createdAt = getResumeInfo(u).createdAt
                  /\ resumes'[u].exists = resumes[u].exists
                  /\ getStats' = getStats
                  /\ resumes'[u].updatedAt = Uint64(now)
                  /\ getResumeInfo(u)'.updatedAt = Uint64(now)
                  /\ \A v \in Accounts \ {u} : resumes'[v] = resumes[v]
                  /\ UNCHANGED hrAddresses]_vars

C17_Witness ==
    /\ last.op = "updateResume" /\ last.err = ""
    /\ resumes[last.caller].updatedAt = now
    /\ resumes[last.caller].createdAt < resumes[last.caller].updatedAt
    /\ \A u \in Candidates : hasResume(u)
    /\ hrAddresses["hr"]

(* C18 as stated: in every existing resume each slot at or above           *)
(* skillCount holds an empty skill name and no skill level of an earlier   *)
(* version of the resume (a never written or a zero level only).           *)
C18_Original ==
    \A u \in Accounts :
        resumes[u].exists =>
            \A s \in Slots :
                s > resumes[u].skillCount =>
                    /\ resumes[u].skillName[s] = ""
                    /\ resumes[u].skillLevel[s] \in {NilHandle, TrivialEncrypt(W(0))}

(* C19 as stated: once hasResume(u) is true it stays true, and a second    *)
(* successful submitResume by u keeps the createdAt of u's first           *)
(* submission.                                                             *)
C19_Original ==
    [][/\ \A u \in Accounts : hasResume(u) => hasResume(u)'
       /\ (last'.op = "submitResume" /\ last'.err = "") =>
            \A u \in Candidates, t \in TextInputs, sk \in SkillInputs :
                (last'.caller = u /\ hasResume(u) /\ submitResume(u, t, sk)) =>
                    /\ resumes'[u].createdAt = resumes[u].createdAt
                    /\ getResumeInfo(u)'.createdAt = getResumeInfo(u).createdAt]_vars

(* C20 as stated: every account other than the owner and the contract that *)
(* is allowed on a currently stored skill level of a resume is a currently *)
(* authorized HR; after revokeHR(h), h is allowed on none.                 *)
C20_Original ==
    \A owner \in Accounts :
        resumes[owner].exists =>
            \A s \in 1..resumes[owner].skillCount :
                \A a \in Accounts \ {owner} :
                    isAllowed(resumes[owner].skillLevel[s], a) => hrAddresses[a]

====
